---------------------------- MODULE Spec2Model ----------------------------
(***************************************************************************)
(* Chess.py: the evaluator (evaluate_board), the alpha-beta searcher       *)
(* (minimax), the root driver (get_ai_move) and the game loop (main).      *)
(*                                                                         *)
(* The recursion of minimax is modelled as an explicit call stack of       *)
(* frames, one action per straight-line piece of a function body, so that  *)
(* the board's push/pop discipline, the (alpha, beta) window of every call *)
(* and the depth argument of every call are visible in the states.         *)
(*                                                                         *)
(* The rules engine (the python-chess Board) is an external collaborator.  *)
(* It is modelled by a bounded family of finite games: a game gives every  *)
(* position its side to move, its piece placement, its terminal status     *)
(* and its ordered list of legal moves.  The family contains cycles,       *)
(* positions of every terminal status, both colours to move, ties between  *)
(* sibling moves and material swings, so that cut-offs, ties and mates     *)
(* all occur.                                                              *)
(***************************************************************************)
EXTENDS Integers, Sequences, FiniteSets

VARIABLES
    game,    \* the game the rules engine plays (fixed during a behaviour)
    call,    \* the top-level call of this behaviour and its arguments
    board,   \* the one mutable chess.Board shared by all calls
    stack,   \* the call stack, innermost call last
    ret,     \* the value returned by the call that returned last
    skipped  \* how many legal moves the cut-offs of the search in progress
             \* have left unsearched (kept for the properties only)

vars == <<game, call, board, stack, ret, skipped>>

(***************************************************************************)
(* Bounds of the model.                                                    *)
(***************************************************************************)
NumGames == 20
HalfPositions == 4
MaxDepth == 3
MaxPlies == 6

NumPositions == 2 * HalfPositions
Positions == 0 .. (NumPositions - 1)
Games == 0 .. (NumGames - 1)
\* Deepest call stack the interpreter allows before it raises RecursionError.
MaxCallDepth == MaxDepth + 3

(***************************************************************************)
(* Program constants.                                                      *)
(***************************************************************************)
WHITE == TRUE
BLACK == FALSE
\* math.inf: larger than every score evaluate_board can return.
Inf == 1000000
\* The checkmate sentinel.
MATE == 10000
\* None, the initial best_move; legal moves are numbered from 1.
None == 0
\* depth=3 in main's call of get_ai_move.
MainDepth == 3

PIECE_VALUES ==
    [PAWN |-> 10, KNIGHT |-> 30, BISHOP |-> 30, ROOK |-> 50, QUEEN |-> 90,
     KING |-> 900]

Max(a, b) == IF a >= b THEN a ELSE b
Min(a, b) == IF a <= b THEN a ELSE b

(***************************************************************************)
(* The rules engine.                                                       *)
(***************************************************************************)
Pc(t, c) == [piece_type |-> t, color |-> c]

\* Piece placements with their terminal status.  Both kings are always on
\* the board; "none" means the game goes on.  "fivefold" stands for the
\* terminal states is_game_over() knows and evaluate_board does not
\* (fivefold repetition, the seventy-five-move rule).
Layouts ==
    << [over |-> "none", pieces |-> <<Pc("KING", WHITE), Pc("KING", BLACK), Pc("ROOK", WHITE), Pc("ROOK", BLACK)>>],
       [over |-> "none", pieces |-> <<Pc("KING", WHITE), Pc("KING", BLACK), Pc("PAWN", BLACK)>>],
       [over |-> "none", pieces |-> <<Pc("KING", WHITE), Pc("KING", BLACK), Pc("PAWN", WHITE)>>],
       [over |-> "checkmate", pieces |-> <<Pc("KING", WHITE), Pc("KING", BLACK), Pc("QUEEN", WHITE), Pc("QUEEN", BLACK)>>],
       [over |-> "none", pieces |-> <<Pc("KING", WHITE), Pc("KING", BLACK), Pc("QUEEN", BLACK), Pc("ROOK", WHITE)>>],
       [over |-> "none", pieces |-> <<Pc("KING", WHITE), Pc("KING", BLACK), Pc("ROOK", WHITE)>>],
       [over |-> "stalemate", pieces |-> <<Pc("KING", WHITE), Pc("KING", BLACK), Pc("PAWN", BLACK)>>],
       [over |-> "none", pieces |-> <<Pc("KING", WHITE), Pc("KING", BLACK), Pc("ROOK", WHITE), Pc("ROOK", BLACK)>>],
       [over |-> "insufficient", pieces |-> <<Pc("KING", WHITE), Pc("KING", BLACK), Pc("KNIGHT", WHITE)>>],
       [over |-> "fivefold", pieces |-> <<Pc("KING", WHITE), Pc("KING", BLACK), Pc("PAWN", BLACK)>>],
       [over |-> "none", pieces |-> <<Pc("KING", WHITE), Pc("KING", BLACK), Pc("PAWN", BLACK)>>] >>

\* The placement of position p in game g.  Position 0 is the start position
\* of main: balanced material, game not over.
LayoutOf(g, p) ==
    IF p = 0 THEN Layouts[1]
    ELSE Layouts[((g * (p + 2) + p * p) % Len(Layouts)) + 1]

\* Number of squares a placement can occupy (chess.SQUARES).
NumSquares == 4
SQUARES == 1 .. NumSquares

piece_at(g, p, square) ==
    LET pieces == LayoutOf(g, p).pieces
    IN  IF square <= Len(pieces) THEN <<pieces[square]>> ELSE <<>>

\* board.turn: White moves in the even positions.
turn(p) == (p % 2 = 0)

is_checkmate(g, p) == LayoutOf(g, p).over = "checkmate"
is_stalemate(g, p) == LayoutOf(g, p).over = "stalemate"
is_insufficient_material(g, p) == LayoutOf(g, p).over = "insufficient"
is_game_over(g, p) == LayoutOf(g, p).over # "none"

\* board.legal_moves as the ordered list of the positions the moves lead to;
\* a move is its index in this list.  Every move hands the turn to the other
\* side (an odd step), a checkmate or stalemate has no move, and a position
\* that is not checkmate or stalemate has at least one.
legal_moves(g, p) ==
    IF is_checkmate(g, p) \/ is_stalemate(g, p) THEN <<>>
    ELSE [k \in 1 .. (1 + ((g + p) % 3)) |->
             (p + (2 * k - 1) * (2 * (g % 2) + 1) + 2 * (p % 3)) % NumPositions]

\* board.push(move) and board.pop() on the board [pos, move_stack].
push(b, move) ==
    [pos |-> legal_moves(game, b.pos)[move],
     move_stack |-> Append(b.move_stack, [pos |-> b.pos, move |-> move])]

pop(b) ==
    [pos |-> b.move_stack[Len(b.move_stack)].pos,
     move_stack |-> SubSeq(b.move_stack, 1, Len(b.move_stack) - 1)]

(***************************************************************************)
(* evaluate_board                                                          *)
(***************************************************************************)
\* The sign the material sum gives to a piece of the colour.
PieceSign(color) == IF color THEN -1 ELSE 1

RECURSIVE MaterialUpTo(_, _, _)
MaterialUpTo(g, p, square) ==
    IF square = 0 THEN 0
    ELSE LET piece == piece_at(g, p, square)
             rest == MaterialUpTo(g, p, square - 1)
         IN  IF piece # <<>>
             THEN rest + PIECE_VALUES[piece[1].piece_type] * PieceSign(piece[1].color)
             ELSE rest

\* Mutant: the two checkmate scores exchanged.
evaluate_positionMateFlipped(g, p) ==
    IF is_checkmate(g, p) THEN (IF turn(p) THEN -MATE ELSE MATE)
    ELSE IF is_stalemate(g, p) \/ is_insufficient_material(g, p) THEN 0
    ELSE MaterialUpTo(g, p, NumSquares)

evaluate_position(g, p) ==
    IF is_checkmate(g, p) THEN (IF turn(p) THEN MATE ELSE -MATE)
    ELSE IF is_stalemate(g, p) \/ is_insufficient_material(g, p) THEN 0
    ELSE MaterialUpTo(g, p, NumSquares)

evaluate_board(b) == evaluate_position(game, b.pos)


(***************************************************************************)
(* Call frames.  pc is the place of the call in its function body:         *)
(*   "start"  minimax entered, base case not yet tested                    *)
(*   "loop"   at the head of the for loop, about to take move number i     *)
(*   "called" move i is pushed and the recursive call is made; the frame   *)
(*            is on top again when that call has returned                  *)
(*   "break"  the loop was left by the beta <= alpha cut-off               *)
(* best is max_eval, min_eval or best_value.  entry is the board at the    *)
(* entry of the call; the program does not keep it, the properties read it.*)
(***************************************************************************)
Frame(fn, pc, depth, alpha, beta, maximizing_player, best, b) ==
    [fn |-> fn, pc |-> pc, depth |-> depth, alpha |-> alpha, beta |-> beta,
     maximizing_player |-> maximizing_player, i |-> 1, best |-> best,
     best_move |-> None, entry |-> b]

MinimaxFrame(b, depth, alpha, beta, maximizing_player) ==
    Frame("minimax", "start", depth, alpha, beta, maximizing_player, 0, b)

\* Mutant: best_value starts at the checkmate score, the least score
\* evaluate_board returns, instead of at -math.inf.
InitialBestValueMate == -MATE

\* best_move = None, best_value = -math.inf
InitialBestValue == -Inf

GetAiMoveFrame(b, depth) ==
    Frame("get_ai_move", "loop", depth, -Inf, Inf, TRUE, InitialBestValue, b)

\* player_color = chess.WHITE
player_color == WHITE

MainFrame(b) == Frame("main", "loop", MainDepth, -Inf, Inf, TRUE, 0, b)

top == stack[Len(stack)]
Running(fn, pc) == stack # <<>> /\ top.fn = fn /\ top.pc = pc
SetTop(f) == [stack EXCEPT ![Len(stack)] = f]
Drop == SubSeq(stack, 1, Len(stack) - 1)
Moves == legal_moves(game, board.pos)

(***************************************************************************)
(* The calls a behaviour can start with: main(), get_ai_move(board, depth) *)
(* on any position, minimax(board, depth, alpha, beta, maximizing_player)  *)
(* on any position.                                                        *)
(***************************************************************************)
Windows == {<<-Inf, Inf>>, <<-10, 10>>, <<0, 0>>, <<10, -10>>}

NewBoard(p) == [pos |-> p, move_stack |-> <<>>]

Init ==
    /\ game \in Games
    /\ ret = None
    /\ skipped = 0
    /\ \/ /\ call = [fn |-> "main", pos |-> 0, depth |-> MainDepth,
                     alpha |-> -Inf, beta |-> Inf, maximizing_player |-> TRUE]
          /\ board = NewBoard(0)
          /\ stack = <<MainFrame(board)>>
       \/ \E p \in Positions, d \in 0 .. MaxDepth :
          /\ call = [fn |-> "get_ai_move", pos |-> p, depth |-> d,
                     alpha |-> -Inf, beta |-> Inf, maximizing_player |-> TRUE]
          /\ board = NewBoard(p)
          /\ stack = <<GetAiMoveFrame(board, d)>>
       \/ \E p \in Positions, d \in 0 .. MaxDepth, w \in Windows, m \in BOOLEAN :
          /\ call = [fn |-> "minimax", pos |-> p, depth |-> d,
                     alpha |-> w[1], beta |-> w[2], maximizing_player |-> m]
          /\ board = NewBoard(p)
          /\ stack = <<MinimaxFrame(board, d, w[1], w[2], m)>>

(***************************************************************************)
(* minimax                                                                 *)
(***************************************************************************)
\* if depth == 0 or board.is_game_over(): return evaluate_board(board)
BaseCase(f) == f.depth = 0 \/ is_game_over(game, board.pos)

MinimaxBase ==
    /\ Running("minimax", "start")
    /\ BaseCase(top)
    /\ ret' = evaluate_board(board)
    /\ stack' = Drop
    /\ UNCHANGED <<game, call, board, skipped>>

\* max_eval = -math.inf, or min_eval = math.inf
MinimaxBegin ==
    /\ Running("minimax", "start")
    /\ ~BaseCase(top)
    /\ stack' = SetTop([top EXCEPT !.pc = "loop",
                                   !.best = IF top.maximizing_player THEN -Inf ELSE Inf])
    /\ UNCHANGED <<game, call, board, ret, skipped>>

\* Mutant: the recursive call is given depth in place of depth-1.
MinimaxPushSameDepth ==
    /\ Running("minimax", "loop")
    /\ top.i <= Len(Moves)
    /\ Len(stack) < MaxCallDepth
    /\ board' = push(board, top.i)
    /\ stack' = Append(SetTop([top EXCEPT !.pc = "called"]),
                       MinimaxFrame(board', top.depth, top.alpha, top.beta,
                                    ~top.maximizing_player))
    /\ UNCHANGED <<game, call, ret, skipped>>

\* for move in board.legal_moves: board.push(move); minimax(board, depth-1,
\* alpha, beta, not maximizing_player)
MinimaxPush ==
    /\ Running("minimax", "loop")
    /\ top.i <= Len(Moves)
    /\ Len(stack) < MaxCallDepth
    /\ board' = push(board, top.i)
    /\ stack' = Append(SetTop([top EXCEPT !.pc = "called"]),
                       MinimaxFrame(board', top.depth - 1, top.alpha, top.beta,
                                    ~top.maximizing_player))
    /\ UNCHANGED <<game, call, ret, skipped>>

\* Mutant: the maximizing branch raises alpha to at least 0, as a search
\* that starts its bound at 0 instead of at the caller's alpha would.
FoldedAlphaFromZero(f, evaluation) ==
    IF f.maximizing_player
    THEN [f EXCEPT !.best = Max(f.best, evaluation),
                   !.alpha = Max(Max(f.alpha, 0), evaluation)]
    ELSE [f EXCEPT !.best = Min(f.best, evaluation), !.beta = Min(f.beta, evaluation)]

\* The frame after the child's value is folded into the running extremum
\* and into alpha (maximizing) or beta (minimizing).
Folded(f, evaluation) ==
    IF f.maximizing_player
    THEN [f EXCEPT !.best = Max(f.best, evaluation), !.alpha = Max(f.alpha, evaluation)]
    ELSE [f EXCEPT !.best = Min(f.best, evaluation), !.beta = Min(f.beta, evaluation)]

\* Mutant: the cut-off test made strict (beta < alpha).
CutoffStrict(f) == f.beta < f.alpha

\* if beta <= alpha: break
Cutoff(f) == f.beta <= f.alpha

\* Mutant: the break is taken before board.pop(), so a cut-off leaves its
\* move on the board.
MinimaxFoldBreakBeforePop ==
    /\ Running("minimax", "called")
    /\ LET f == Folded(top, ret)
       IN  /\ board' = IF Cutoff(f) THEN board ELSE pop(board)
           /\ stack' = SetTop(IF Cutoff(f) THEN [f EXCEPT !.pc = "break"]
                              ELSE [f EXCEPT !.pc = "loop", !.i = f.i + 1])
           /\ skipped' = IF Cutoff(f)
                         THEN skipped + Len(legal_moves(game, board'.pos)) - f.i
                         ELSE skipped
    /\ UNCHANGED <<game, call, ret>>

\* board.pop(), the fold, and the cut-off test.
MinimaxFold ==
    /\ Running("minimax", "called")
    /\ board' = pop(board)
    /\ LET f == Folded(top, ret)
       IN  /\ stack' = SetTop(IF Cutoff(f) THEN [f EXCEPT !.pc = "break"]
                              ELSE [f EXCEPT !.pc = "loop", !.i = f.i + 1])
           /\ skipped' = IF Cutoff(f)
                         THEN skipped + Len(legal_moves(game, board'.pos)) - f.i
                         ELSE skipped
    /\ UNCHANGED <<game, call, ret>>

\* return max_eval, or return min_eval
MinimaxReturn ==
    /\ stack # <<>> /\ top.fn = "minimax"
    /\ top.pc = "break" \/ (top.pc = "loop" /\ top.i > Len(Moves))
    /\ ret' = top.best
    /\ stack' = Drop
    /\ UNCHANGED <<game, call, board, skipped>>

(***************************************************************************)
(* get_ai_move                                                             *)
(***************************************************************************)
\* board.push(move); minimax(board, depth-1, -math.inf, math.inf, False)
GetAiMovePush ==
    /\ Running("get_ai_move", "loop")
    /\ top.i <= Len(Moves)
    /\ Len(stack) < MaxCallDepth
    /\ board' = push(board, top.i)
    /\ stack' = Append(SetTop([top EXCEPT !.pc = "called"]),
                       MinimaxFrame(board', top.depth - 1, -Inf, Inf, FALSE))
    /\ UNCHANGED <<game, call, ret, skipped>>

\* Mutant: the comparison made non-strict (value >= best_value).
BetterOrEqual(value, best_value) == value >= best_value

\* if value > best_value
Better(value, best_value) == value > best_value

\* board.pop(); if value > best_value: best_value = value; best_move = move
GetAiMoveFold ==
    /\ Running("get_ai_move", "called")
    /\ board' = pop(board)
    /\ stack' = SetTop(IF Better(ret, top.best)
                       THEN [top EXCEPT !.pc = "loop", !.i = top.i + 1,
                                        !.best = ret, !.best_move = top.i]
                       ELSE [top EXCEPT !.pc = "loop", !.i = top.i + 1])
    /\ UNCHANGED <<game, call, ret, skipped>>

\* return best_move
GetAiMoveReturn ==
    /\ Running("get_ai_move", "loop")
    /\ top.i > Len(Moves)
    /\ ret' = top.best_move
    /\ stack' = Drop
    /\ UNCHANGED <<game, call, board, skipped>>

(***************************************************************************)
(* main: the game loop.  The main frame's pc is "loop" at the while test   *)
(* and "called" while get_ai_move runs; the program ends with an empty     *)
(* stack.                                                                  *)
(***************************************************************************)
\* Mutant: the loop runs without testing for the end of the game.
LoopTestAlways == TRUE

\* while not board.is_game_over()
LoopTest == ~is_game_over(game, board.pos)

\* The mouse events that end in `move in board.legal_moves`: board.push(move).
\* Every other event leaves the board alone.
MainPlayerMove ==
    /\ Running("main", "loop")
    /\ LoopTest
    /\ turn(board.pos) = player_color
    /\ Len(board.move_stack) < MaxPlies
    /\ \E move \in 1 .. Len(Moves) : board' = push(board, move)
    /\ UNCHANGED <<game, call, stack, ret, skipped>>

\* pygame.QUIT: pygame.quit(); sys.exit()
MainQuit ==
    /\ Running("main", "loop")
    /\ LoopTest
    /\ turn(board.pos) = player_color
    /\ stack' = Drop
    /\ UNCHANGED <<game, call, board, ret, skipped>>

\* The else branch of the loop body.
AiToMove == turn(board.pos) # player_color

\* ai_move = get_ai_move(board, depth=3)
MainCallAi ==
    /\ Running("main", "loop")
    /\ LoopTest
    /\ AiToMove
    /\ Len(board.move_stack) < MaxPlies
    /\ stack' = Append(SetTop([top EXCEPT !.pc = "called"]),
                       GetAiMoveFrame(board, MainDepth))
    /\ skipped' = 0
    /\ UNCHANGED <<game, call, board, ret>>

\* board.push(ai_move)
MainPushAi ==
    /\ Running("main", "called")
    /\ ret \in 1 .. Len(Moves)
    /\ board' = push(board, ret)
    /\ stack' = SetTop([top EXCEPT !.pc = "loop"])
    /\ UNCHANGED <<game, call, ret, skipped>>

\* The loop ends; the game-over message is printed.
MainGameOver ==
    /\ Running("main", "loop")
    /\ ~LoopTest
    /\ stack' = Drop
    /\ UNCHANGED <<game, call, board, ret, skipped>>

Next ==
    \/ MinimaxBase
    \/ MinimaxBegin
    \/ MinimaxPush
    \/ MinimaxFold
    \/ MinimaxReturn
    \/ GetAiMovePush
    \/ GetAiMoveFold
    \/ GetAiMoveReturn
    \/ MainPlayerMove
    \/ MainQuit
    \/ MainCallAi
    \/ MainPushAi
    \/ MainGameOver

Spec == Init /\ [][Next]_vars

\* The steps of the search.  The program is single-threaded and synchronous:
\* a search that can take a step takes it.  The player's moves are not
\* forced.
SearchStep ==
    \/ MinimaxBase
    \/ MinimaxBegin
    \/ MinimaxPush
    \/ MinimaxFold
    \/ MinimaxReturn
    \/ GetAiMovePush
    \/ GetAiMoveFold
    \/ GetAiMoveReturn

FairSpec == Spec /\ WF_vars(SearchStep)

(***************************************************************************)
(* Reference definitions for the properties.                               *)
(***************************************************************************)
SetMax(S) == CHOOSE x \in S : \A y \in S : y <= x
SetMin(S) == CHOOSE x \in S : \A y \in S : x <= y

\* Minimax of the depth-limited tree below position p with no pruning:
\* evaluate_board at depth 0 and at game-over positions, otherwise the
\* greatest (maximizing) or least (minimizing) value of all the children.
RECURSIVE PlainMinimax(_, _, _, _)
PlainMinimax(g, p, depth, maximizing) ==
    IF depth = 0 \/ is_game_over(g, p) THEN evaluate_position(g, p)
    ELSE LET moves == legal_moves(g, p)
             values == {PlainMinimax(g, moves[k], depth - 1, ~maximizing) :
                           k \in 1 .. Len(moves)}
         IN  IF maximizing THEN SetMax(values \cup {-Inf})
             ELSE SetMin(values \cup {Inf})

\* The top-level call has returned.
Done(fn) == call.fn = fn /\ stack = <<>>

\* A call of minimax made by get_ai_move has just returned to it.
RootChildReturned == Running("get_ai_move", "called") /\ top.depth >= 1

(***************************************************************************)
(* C1: a minimax call made with the full window (-inf, +inf), at any       *)
(* position, depth and maximizing flag, returns the value of the plain     *)
(* minimax of the same depth-limited tree with no pruning.  Stated of the  *)
(* direct calls of minimax and of the calls get_ai_move makes.             *)
(***************************************************************************)
C1_AlphaBetaEqualsPlainMinimax ==
    /\ (Done("minimax") /\ call.alpha = -Inf /\ call.beta = Inf)
          => ret = PlainMinimax(game, call.pos, call.depth, call.maximizing_player)
    /\ RootChildReturned
          => ret = PlainMinimax(game, board.pos, top.depth - 1, FALSE)

\* A full-window search of the greatest depth has returned after cut-offs
\* left moves unsearched.
C1_Witness ==
    /\ Done("minimax") /\ call.alpha = -Inf /\ call.beta = Inf
    /\ call.depth = MaxDepth
    /\ skipped >= 2
    /\ ret = PlainMinimax(game, call.pos, call.depth, call.maximizing_player)

IsSearch(f) == f.fn \in {"minimax", "get_ai_move"}
SearchFrames == {j \in 1 .. Len(stack) : IsSearch(stack[j])}
Root == SetMin(SearchFrames)
\* Moves pushed since the root call was entered and not yet popped.
Pending == Len(board.move_stack) - Len(stack[Root].entry.move_stack)


(***************************************************************************)
(* C2: pushes and pops are strictly nested.  The search frames are the     *)
(* frames of get_ai_move and minimax; the root is the lowest of them.      *)
(*  - a frame that is not on top has pushed its move number i, and the     *)
(*    frame above it was entered on exactly that board;                    *)
(*  - the frame on top sees the board of its entry whenever it is at the   *)
(*    head of its loop, has left the loop by a cut-off or is about to      *)
(*    return, and the board of its entry plus its own move i when the      *)
(*    call it made has returned and the move is not yet popped;            *)
(*  - so the number of moves pushed and not yet popped is the number of    *)
(*    calls below the root that have not yet been undone;                  *)
(*  - a top-level call of minimax or get_ai_move that has returned leaves  *)
(*    the board as it was given.                                           *)
(***************************************************************************)
C2_PushPopNested ==
    /\ \A j \in SearchFrames :
          IF j < Len(stack)
          THEN /\ stack[j].pc = "called"
               /\ stack[j + 1].entry = push(stack[j].entry, stack[j].i)
          ELSE board = IF stack[j].pc = "called"
                       THEN push(stack[j].entry, stack[j].i)
                       ELSE stack[j].entry
    /\ SearchFrames # {}
          => Pending = (Len(stack) - Root) + (IF top.pc = "called" THEN 1 ELSE 0)
    /\ (Done("minimax") \/ Done("get_ai_move")) => board = NewBoard(call.pos)

\* Three calls below the root, a cut-off has just left sibling moves
\* unsearched, and the board is the one the cutting call was entered on.
C2_Witness ==
    /\ Running("minimax", "break")
    /\ Len(stack) - Root = MaxDepth - 1
    /\ top.i < Len(Moves)
    /\ board = top.entry
    /\ Pending = MaxDepth - 1

(***************************************************************************)
(* The root of a get_ai_move call that was started directly.               *)
(***************************************************************************)
RootMoves == legal_moves(game, call.pos)
\* The search value get_ai_move computes for root move k.
RootValue(k) == PlainMinimax(game, RootMoves[k], call.depth - 1, FALSE)
\* get_ai_move(board, depth) with depth >= 1 has returned from a position
\* that has a legal move.
Selected == Done("get_ai_move") /\ call.depth >= 1 /\ Len(RootMoves) >= 1

\* The minimax value of position p searched depth plies deep when each side
\* plays for itself: Black, whose pieces evaluate_board counts positive,
\* maximizes and White minimizes.
RECURSIVE TrueMinimax(_, _, _)
TrueMinimax(g, p, depth) ==
    IF depth = 0 \/ is_game_over(g, p) THEN evaluate_position(g, p)
    ELSE LET moves == legal_moves(g, p)
             values == {TrueMinimax(g, moves[k], depth - 1) : k \in 1 .. Len(moves)}
         IN  IF turn(p) = BLACK THEN SetMax(values \cup {-Inf})
             ELSE SetMin(values \cup {Inf})

TrueRootValue(k) == TrueMinimax(game, RootMoves[k], call.depth - 1)

(***************************************************************************)
(* C3: get_ai_move returns the best move for the side to move at the root, *)
(* whichever colour that is: no other root move has a better value for the *)
(* side to move (greater for Black, whom the evaluation favours, less for  *)
(* White).                                                                 *)
(***************************************************************************)
C3_BestForSideToMove ==
    Selected =>
        /\ ret \in 1 .. Len(RootMoves)
        /\ \A k \in 1 .. Len(RootMoves) :
              IF turn(call.pos) = BLACK
              THEN TrueRootValue(k) <= TrueRootValue(ret)
              ELSE TrueRootValue(k) >= TrueRootValue(ret)

Mates(k) == is_checkmate(game, RootMoves[k])


(***************************************************************************)
(* C4: when some legal root move checkmates the opponent at once,          *)
(* get_ai_move at every depth >= 1 returns a move that checkmates at once, *)
(* for either colour to move.                                              *)
(***************************************************************************)
C4_ReturnsMateInOne ==
    (Selected /\ \E k \in 1 .. Len(RootMoves) : Mates(k))
        => (ret \in 1 .. Len(RootMoves) /\ Mates(ret))

(***************************************************************************)
(* C5: from a position with a legal move and with depth >= 1, get_ai_move  *)
(* returns one of the root's legal moves, never None: every value minimax  *)
(* returns to it is greater than the initial best_value of -inf, so the    *)
(* first move searched already replaces None.                              *)
(***************************************************************************)
C5_ReturnsLegalMove ==
    /\ Selected => (ret # None /\ ret \in 1 .. Len(RootMoves))
    /\ RootChildReturned => ret > -Inf
    /\ \A j \in 1 .. Len(stack) :
          (stack[j].fn = "get_ai_move" /\ stack[j].depth >= 1 /\ stack[j].i > 1)
              => /\ stack[j].best_move \in 1 .. Len(legal_moves(game, stack[j].entry.pos))
                 /\ stack[j].best > -Inf

\* A search of the greatest depth whose first root move has the least
\* value there is, that of being checkmated, has returned a legal move.
C5_Witness ==
    /\ Selected
    /\ call.depth = MaxDepth
    /\ Len(RootMoves) >= 2
    /\ RootValue(1) = -MATE
    /\ ret \in 1 .. Len(RootMoves)

(***************************************************************************)
(* C7: get_ai_move returns the first move, in the order of legal_moves,    *)
(* among the root moves of the greatest search value                       *)
(* minimax(child, depth-1, -inf, +inf, False).                             *)
(***************************************************************************)
C7_FirstOfTheGreatest ==
    Selected =>
        /\ ret \in 1 .. Len(RootMoves)
        /\ \A k \in 1 .. Len(RootMoves) :
              /\ RootValue(k) <= RootValue(ret)
              /\ k < ret => RootValue(k) < RootValue(ret)

\* The returned move ties with a later move for the greatest value, and a
\* move of less value was enumerated before it.
C7_Witness ==
    /\ Selected
    /\ ret \in 2 .. Len(RootMoves)
    /\ \E k \in 1 .. Len(RootMoves) : k > ret /\ RootValue(k) = RootValue(ret)
    /\ \A k \in 1 .. Len(RootMoves) : RootValue(k) <= RootValue(ret)

MateScore(p) == MATE * PieceSign(~turn(p))
MinimaxReturned ==
    Done("minimax") \/ Running("minimax", "called") \/ Running("get_ai_move", "called")


(***************************************************************************)
(* C6: in a checkmate position evaluate_board returns 10000 with the sign  *)
(* the material sum gives to the pieces of the opponent of the side to     *)
(* move, i.e. of the side that gave mate; and that is the value minimax    *)
(* returns from such a position.                                           *)
(***************************************************************************)
C6_CheckmateSign ==
    is_checkmate(game, board.pos) =>
        /\ evaluate_board(board) = MateScore(board.pos)
        /\ evaluate_board(board) \in {MATE, -MATE}
        /\ MinimaxReturned => ret = MateScore(board.pos)

\* A recursive call has returned from a position in which White, to move,
\* is checkmated: the value is +10000, the sign of Black's pieces.
C6_Witness ==
    /\ Running("minimax", "called")
    /\ is_checkmate(game, board.pos)
    /\ turn(board.pos) = WHITE
    /\ ret = MATE
    /\ PieceSign(BLACK) = 1

StartedInOrder == call.alpha <= call.beta


(***************************************************************************)
(* C8: in a search started with alpha <= beta every minimax call is        *)
(* entered with alpha <= beta; and in every search a node has left its     *)
(* loop by the cut-off exactly when beta <= alpha holds after a child's    *)
(* value was folded in, and otherwise is at the head of the loop for the   *)
(* next move (or waits for that move's call) with alpha < beta.            *)
(***************************************************************************)
C8_WindowAndCutoff ==
    /\ (StartedInOrder /\ Running("minimax", "start")) => top.alpha <= top.beta
    /\ \A j \in 1 .. Len(stack) :
          stack[j].fn = "minimax" =>
              /\ stack[j].pc = "break" => stack[j].beta <= stack[j].alpha
              /\ (stack[j].pc \in {"loop", "called"} /\ stack[j].i > 1)
                    => ~(stack[j].beta <= stack[j].alpha)

\* In a search get_ai_move started, after cut-offs, a call is entered with
\* both bounds narrowed to scores; and the call above it has folded a child
\* and goes on.
C8_Witness ==
    /\ call.fn = "get_ai_move"
    /\ Running("minimax", "start")
    /\ -Inf < top.alpha /\ top.alpha < top.beta /\ top.beta < Inf
    /\ skipped > 0
    /\ stack[Len(stack) - 1].i > 1

RootDepth == stack[Root].depth


(***************************************************************************)
(* C9 as claimed: for every depth d >= 0 given to get_ai_move or to        *)
(* minimax, every minimax call of the search has a depth argument in 0..d. *)
(***************************************************************************)
C9_DepthArgumentsWithinZeroToD ==
    \A j \in SearchFrames :
        stack[j].fn = "minimax" => stack[j].depth \in 0 .. RootDepth

\* The depth given to the top-level call is one the search is made for.
DepthGiven ==
    IF call.fn = "minimax" THEN call.depth >= 0 ELSE call.depth >= 1

\* The call j levels below the root has the depth argument d - j, in 0..d,
\* and at most d moves are pushed and not yet popped.
DepthBounded ==
    (DepthGiven /\ SearchFrames # {}) =>
        /\ \A j \in SearchFrames :
              /\ stack[j].depth = RootDepth - (j - Root)
              /\ stack[j].depth \in 0 .. RootDepth
        /\ Pending <= RootDepth
        /\ Len(stack) < MaxCallDepth

(***************************************************************************)
(* C9 amended: for every depth d >= 0 given to minimax and every depth     *)
(* d >= 1 given to get_ai_move, the call j levels below the root has the   *)
(* depth argument d - j, which is in 0..d; at most d moves are ever pushed *)
(* and not yet popped; and every search returns, also over the games with  *)
(* cycles.                                                                 *)
(***************************************************************************)
C9_DepthBoundsTheSearch ==
    /\ []DepthBounded
    /\ [](SearchFrames # {} /\ DepthGiven => <>(SearchFrames = {}))

\* A search of the greatest depth over a game with cycles is at a leaf,
\* depth 0, in a position it has already passed through on this line.
C9_Witness ==
    /\ DepthGiven
    /\ Running("minimax", "start")
    /\ top.depth = 0
    /\ RootDepth = MaxDepth
    /\ Pending = MaxDepth
    /\ \E k \in 1 .. Len(board.move_stack) : board.move_stack[k].pos = board.pos

(***************************************************************************)
(* C10: in the game loop, get_ai_move is called only on a position that is *)
(* not game-over, has a legal move and has the side that is not            *)
(* player_color to move; the move it returns is a legal move of that       *)
(* position, which main pushes; and the sides alternate along the moves    *)
(* on the board.                                                           *)
(***************************************************************************)
C10_GameLoop ==
    call.fn = "main" =>
        /\ \A j \in 1 .. Len(stack) :
              stack[j].fn = "get_ai_move" =>
                  LET p == stack[j].entry.pos
                  IN  /\ ~is_game_over(game, p)
                      /\ Len(legal_moves(game, p)) >= 1
                      /\ turn(p) # player_color
        /\ Running("main", "called") =>
              /\ ~is_game_over(game, board.pos)
              /\ turn(board.pos) # player_color
              /\ ret # None
              /\ ret \in 1 .. Len(Moves)
        /\ \A k \in 1 .. Len(board.move_stack) :
              /\ board.move_stack[k].move
                     \in 1 .. Len(legal_moves(game, board.move_stack[k].pos))
              /\ turn(board.move_stack[k].pos) = (IF k % 2 = 1 THEN WHITE ELSE BLACK)
        /\ Running("main", "loop") =>
              turn(board.pos) = (IF Len(board.move_stack) % 2 = 0 THEN WHITE ELSE BLACK)

\* The player and the AI have each moved twice; the AI's second move is on
\* the board and the loop is about to test for the end of the game.
C10_Witness ==
    /\ call.fn = "main"
    /\ Running("main", "loop")
    /\ Len(board.move_stack) = 4
    /\ turn(board.pos) = player_color
    /\ ret \in 1 .. Len(legal_moves(game, board.move_stack[4].pos))
    /\ ret = board.move_stack[4].move

=============================================================================
